---- MODULE Spec2Model ----
(***************************************************************************)
(* Model of src/addon.cpp: the N-API binding of the EPD_7in3e e-Paper      *)
(* driver.  Every exported function is one synchronous handler; a handler  *)
(* runs to completion before the next call (single JavaScript thread), so  *)
(* each handler is one action.  The state records what the last call did:  *)
(* its arguments, the exception it left pending, its return value and the  *)
(* driver routines it invoked, in order.  The addon itself keeps no state   *)
(* between calls; hw and hwBefore follow the lifecycle of the driver's     *)
(* hardware handle (initialised, asleep, torn down) as the calls forwarded *)
(* to the driver drive it.                                                 *)
(***************************************************************************)
EXTENDS Integers, Sequences, FiniteSets, TLC

(* ---------------------------- bounds ---------------------------------- *)
\* Panel geometries the model ranges over (EPD_7IN3E_WIDTH / _HEIGHT are
\* macros of the driver header; the build fixes one value for each).
MaxWidth == 3
MaxHeight == 2
\* Numbers passed to clear() range over -NumBelow .. NumHi.
NumBelow == 2
NumHi == 258

(* ------------------- palette of the driver header --------------------- *)
\* The codes EPD_7in3e.h gives the six colours.  The header belongs to the
\* vendor driver; the handlers only copy the codes into exports.Colors.
EPD_7IN3E_BLACK == 0
EPD_7IN3E_WHITE == 1
EPD_7IN3E_YELLOW == 2
EPD_7IN3E_RED == 3
EPD_7IN3E_BLUE == 5
EPD_7IN3E_GREEN == 6

(* --------------------------- JS values -------------------------------- *)
\* A JavaScript value as the handlers see it: its type, the integer it holds
\* when it is a finite number, and the bytes it holds when it is a Buffer.
Num(n) == [t |-> "number", n |-> n, b |-> <<>>]
NonFinite == [t |-> "nonfinite", n |-> 0, b |-> <<>>]
Buf(s) == [t |-> "buffer", n |-> 0, b |-> s]
Str == [t |-> "string", n |-> 0, b |-> <<>>]
Undefined == [t |-> "undefined", n |-> 0, b |-> <<>>]
Null == [t |-> "null", n |-> 0, b |-> <<>>]

\* info[i]: the i-th argument, undefined when the call has fewer arguments.
Arg(info, i) == IF i <= Len(info) THEN info[i] ELSE Undefined

IsNumber(v) == v.t \in {"number", "nonfinite"}
IsBuffer(v) == v.t = "buffer"

\* Napi::Number::Uint32Value: NaN and the infinities give 0, a finite number
\* is reduced modulo 2^32.  The result is kept as its two 16-bit halves.
Uint32Value(v) ==
    IF v.t = "nonfinite" THEN [hi |-> 0, lo |-> 0]
    ELSE IF v.n >= 0 THEN [hi |-> v.n \div 65536, lo |-> v.n % 65536]
    ELSE LET m == (v.n + 2147483647) + 1
         IN  [hi |-> 32768 + (m \div 65536), lo |-> m % 65536]

\* The implicit conversion uint32_t -> uint8_t of the initialisation of color.
Uint8Cast7Bit(u) == u.lo % 128
Uint8Cast(u) == u.lo % 256

BufferLength(v) == Len(v.b)
BufferDataReversed(v) == [i \in 1..Len(v.b) |-> v.b[Len(v.b) + 1 - i]]
BufferData(v) == v.b

(* --------------------------- exceptions ------------------------------- *)
NoException == [cls |-> "none", msg |-> "", n |-> 0]
TypeError(m) == [cls |-> "TypeError", msg |-> m, n |-> 0]
Error(m, k) == [cls |-> "Error", msg |-> m, n |-> k]

(* --------------------------- driver calls ----------------------------- *)
\* One invocation of a driver routine: its name, its argument bytes and the
\* status it returned (0 for the void routines).
Call(fn, arg, ret) == [fn |-> fn, arg |-> arg, ret |-> ret]

VARIABLES
    width,      \* EPD_7IN3E_WIDTH
    height,     \* EPD_7IN3E_HEIGHT
    Colors,     \* exports.Colors
    op,         \* the exported function called last ("none" after loading)
    info,       \* its arguments
    exception,  \* the exception it left pending
    result,     \* the value it returned
    driver,     \* the driver routines it invoked, in order
    hw,         \* lifecycle of the driver's hardware handle after the call
    hwBefore    \* the same, before the call

vars == <<width, height, Colors, op, info, exception, result, driver, hw,
          hwBefore>>

\* What no handler writes.
frame == <<width, height, Colors>>

CreateColorConstants ==
    [BLACK |-> EPD_7IN3E_BLACK, WHITE |-> EPD_7IN3E_WHITE,
     YELLOW |-> EPD_7IN3E_YELLOW, RED |-> EPD_7IN3E_RED,
     BLUE |-> EPD_7IN3E_BLUE, GREEN |-> EPD_7IN3E_GREEN]

\* Module registration: the state right after the addon is loaded.
InitAll ==
    /\ width \in 1..MaxWidth
    /\ height \in 1..MaxHeight
    /\ Colors = CreateColorConstants
    /\ op = "none"
    /\ info = <<>>
    /\ exception = NoException
    /\ result = Null
    /\ driver = <<>>
    /\ hw = "uninit"
    /\ hwBefore = "uninit"

(* ------------------------------ init ---------------------------------- *)
StatusValues == {0 - 1, 0, 1}

InitFailedPositive(status) == status > 0
InitFailedNonNegative(status) == status >= 0
InitFailed(status) == status # 0

Init ==
    /\ \E status \in StatusValues :
        IF InitFailed(status)
        THEN /\ exception' = Error("Failed to initialize e-Paper module", 0)
             /\ driver' = <<Call("DEV_Module_Init", <<>>, status)>>
             /\ hw' = "initfailed"
        ELSE /\ exception' = NoException
             /\ driver' = <<Call("DEV_Module_Init", <<>>, status),
                            Call("EPD_7IN3E_Init", <<>>, 0)>>
             /\ hw' = "ready"
    /\ op' = "init"
    /\ info' = <<>>
    /\ result' = Null
    /\ hwBefore' = hw
    /\ UNCHANGED frame

(* ------------------------------ clear --------------------------------- *)
Numbers == ((0 - NumBelow)..NumHi) \cup {65536 + 7, 2147483647, 0 - 2147483647}

ClearArgs ==
    {<<>>, <<NonFinite>>, <<Str>>, <<Undefined>>, <<Buf(<<>>)>>, <<Str, Num(1)>>}
        \cup {<<Num(n)>> : n \in Numbers}
        \cup {<<Num(n), Str>> : n \in {0, 255, 256}}

\* The two argument checks of Clear, in the order the handler makes them.
ClearCheckTypeFirst(a) ==
    IF ~IsNumber(Arg(a, 1)) THEN TypeError("Expected number")
    ELSE IF Len(a) < 1 THEN TypeError("Wrong number of arguments")
    ELSE NoException
ClearCheck(a) ==
    IF Len(a) < 1 THEN TypeError("Wrong number of arguments")
    ELSE IF ~IsNumber(Arg(a, 1)) THEN TypeError("Expected number")
    ELSE NoException

Clear ==
    /\ \E a \in ClearArgs :
        /\ info' = a
        /\ exception' = ClearCheck(a)
        /\ IF ClearCheck(a) # NoException
           THEN driver' = <<>>
           ELSE LET color == Uint8Cast(Uint32Value(Arg(a, 1)))
                IN  driver' = <<Call("EPD_7IN3E_Clear", <<color>>, 0)>>
    /\ op' = "clear"
    /\ result' = Null
    /\ hwBefore' = hw
    /\ UNCHANGED <<frame, hw>>

(* ----------------------- show7Block, show ------------------------------ *)
\* Arguments of a call to a handler that reads none of them.
IgnoredArgs == {<<>>, <<Num(0)>>}

Show7Block ==
    /\ info' \in IgnoredArgs
    /\ op' = "show7Block"
    /\ exception' = NoException
    /\ result' = Null
    /\ driver' = <<Call("EPD_7IN3E_Show7Block", <<>>, 0)>>
    /\ hwBefore' = hw
    /\ UNCHANGED <<frame, hw>>

Show ==
    /\ info' \in IgnoredArgs
    /\ op' = "show"
    /\ exception' = NoException
    /\ result' = Null
    /\ driver' = <<Call("EPD_7IN3E_Show", <<>>, 0)>>
    /\ hwBefore' = hw
    /\ UNCHANGED <<frame, hw>>

(* ----------------------------- display -------------------------------- *)
\* expected_size of Display: (W % 2 == 0 ? W / 2 : W / 2 + 1) * H.  The model's
\* geometries are small, so the uint32_t product does not wrap.
DisplayExpectedSizeFloor(w, h) == (w \div 2) * h
DisplayExpectedSize(w, h) ==
    (IF w % 2 = 0 THEN w \div 2 ELSE w \div 2 + 1) * h

\* buffer.Length() != expected_size
SizeMismatchShortOnly(len, expected_size) == len < expected_size
SizeMismatch(len, expected_size) == len # expected_size

ByteValues == {0, 255}
MaxBufLen == ((MaxWidth + 1) \div 2) * MaxHeight + 1
Buffers == UNION {[1..k -> ByteValues] : k \in 0..MaxBufLen}

DisplayArgs ==
    {<<>>, <<Str>>, <<Num(0)>>, <<Undefined>>}
        \cup {<<Buf(s)>> : s \in Buffers}
        \cup {<<Buf(s), Str>> : s \in {<<>>, <<0>>, <<255, 0>>}}

Display ==
    /\ \E a \in DisplayArgs :
        /\ info' = a
        /\ IF Len(a) < 1
           THEN /\ exception' = TypeError("Wrong number of arguments")
                /\ driver' = <<>>
           ELSE IF ~IsBuffer(Arg(a, 1))
           THEN /\ exception' = TypeError("Expected buffer")
                /\ driver' = <<>>
           ELSE LET buffer == Arg(a, 1)
                    expected_size == DisplayExpectedSize(width, height)
                IN  IF SizeMismatch(BufferLength(buffer), expected_size)
                    THEN /\ exception' = Error("Buffer size mismatch", expected_size)
                         /\ driver' = <<>>
                    ELSE /\ exception' = NoException
                         /\ driver' = <<Call("EPD_7IN3E_Display", BufferData(buffer), 0)>>
    /\ op' = "display"
    /\ result' = Null
    /\ hwBefore' = hw
    /\ UNCHANGED <<frame, hw>>

(* --------------------------- sleep, exit ------------------------------- *)
SleepWhenReady ==
    /\ info' \in IgnoredArgs
    /\ op' = "sleep"
    /\ result' = Null
    /\ IF hw = "ready"
       THEN /\ exception' = NoException
            /\ driver' = <<Call("EPD_7IN3E_Sleep", <<>>, 0)>>
            /\ hw' = "asleep"
       ELSE /\ exception' = Error("Not initialized", 0)
            /\ driver' = <<>>
            /\ hw' = hw
    /\ hwBefore' = hw
    /\ UNCHANGED frame
Sleep ==
    /\ info' \in IgnoredArgs
    /\ op' = "sleep"
    /\ exception' = NoException
    /\ result' = Null
    /\ driver' = <<Call("EPD_7IN3E_Sleep", <<>>, 0)>>
    /\ hw' = "asleep"
    /\ hwBefore' = hw
    /\ UNCHANGED frame

ExitDroppingColors ==
    /\ info' \in IgnoredArgs
    /\ op' = "exit"
    /\ exception' = NoException
    /\ result' = Null
    /\ driver' = <<Call("DEV_Module_Exit", <<>>, 0)>>
    /\ hw' = "exited"
    /\ hwBefore' = hw
    /\ Colors' = [c \in DOMAIN Colors |-> 0]
    /\ UNCHANGED <<width, height>>
Exit ==
    /\ info' \in IgnoredArgs
    /\ op' = "exit"
    /\ exception' = NoException
    /\ result' = Null
    /\ driver' = <<Call("DEV_Module_Exit", <<>>, 0)>>
    /\ hw' = "exited"
    /\ hwBefore' = hw
    /\ UNCHANGED frame

(* ---------------------------- accessors ------------------------------- *)
GetWidth ==
    /\ info' \in IgnoredArgs
    /\ op' = "getWidth"
    /\ exception' = NoException
    /\ result' = Num(width)
    /\ driver' = <<>>
    /\ hwBefore' = hw
    /\ UNCHANGED <<frame, hw>>

GetHeight ==
    /\ info' \in IgnoredArgs
    /\ op' = "getHeight"
    /\ exception' = NoException
    /\ result' = Num(height)
    /\ driver' = <<>>
    /\ hwBefore' = hw
    /\ UNCHANGED <<frame, hw>>

\* width * height of GetBufferSize, width being the halved, rounded-up width.
BufferSizeValue(w, h) ==
    (IF w % 2 = 0 THEN w \div 2 ELSE w \div 2 + 1) * h

GetBufferSize ==
    /\ info' \in IgnoredArgs
    /\ op' = "getBufferSize"
    /\ exception' = NoException
    /\ result' = Num(BufferSizeValue(width, height))
    /\ driver' = <<>>
    /\ hwBefore' = hw
    /\ UNCHANGED <<frame, hw>>

Next ==
    \/ Init
    \/ Clear
    \/ Show7Block
    \/ Show
    \/ Display
    \/ Sleep
    \/ Exit
    \/ GetWidth
    \/ GetHeight
    \/ GetBufferSize

Spec == InitAll /\ [][Next]_vars

TypeOK ==
    /\ width \in 1..MaxWidth
    /\ height \in 1..MaxHeight
    /\ op \in {"none", "init", "clear", "show7Block", "show", "display",
               "sleep", "exit", "getWidth", "getHeight", "getBufferSize"}
    /\ hw \in {"uninit", "initfailed", "ready", "asleep", "exited"}
    /\ hwBefore \in {"uninit", "initfailed", "ready", "asleep", "exited"}
    /\ Len(driver) <= 2

(* ======================= properties of the binding ===================== *)
\* The driver routines the last call invoked.
Invoked(fn) == \E i \in DOMAIN driver : driver[i].fn = fn
TimesInvoked(fn) == Cardinality({i \in DOMAIN driver : driver[i].fn = fn})

\* The last call was display(buffer, ...) with a binary buffer first.
DisplayOfBuffer == op = "display" /\ Len(info) >= 1 /\ IsBuffer(info[1])
\* The last call was clear(n, ...) with a finite number first.
ClearOfNumber == op = "clear" /\ Len(info) >= 1 /\ info[1].t = "number"

\* ceil(w / 2), stated without the handler's conditional expression.
CeilHalf(w) == CHOOSE n \in 0..w : 2 * n >= w /\ 2 * (n - 1) < w

\* C1: display(buffer) with a buffer whose length differs from what
\* getBufferSize() returns raises the size-mismatch error, and the driver
\* display routine EPD_7IN3E_Display is not invoked for that call.
SizeMismatchRejected ==
    (DisplayOfBuffer /\ Len(info[1].b) # BufferSizeValue(width, height))
        => /\ exception.cls = "Error"
           /\ exception.msg = "Buffer size mismatch"
           /\ ~Invoked("EPD_7IN3E_Display")

LongBufferRejected ==
    /\ DisplayOfBuffer
    /\ Len(info[1].b) > BufferSizeValue(width, height)
    /\ exception.msg = "Buffer size mismatch"
    /\ driver = <<>>

\* C2: when init() is called and DEV_Module_Init reports a non-zero status,
\* init() raises an error and the panel init EPD_7IN3E_Init is not invoked.
InitFailureRaises ==
    (op = "init" /\ \E i \in DOMAIN driver :
                        driver[i].fn = "DEV_Module_Init" /\ driver[i].ret # 0)
        => /\ exception # NoException
           /\ ~Invoked("EPD_7IN3E_Init")

InitFailedWithNegativeStatus ==
    /\ op = "init"
    /\ driver = <<Call("DEV_Module_Init", <<>>, 0 - 1)>>
    /\ exception.cls = "Error"

\* C3: every init() invokes DEV_Module_Init exactly once, first; when it
\* returns zero, EPD_7IN3E_Init is invoked exactly once after it and init()
\* raises no error.
InitSequence ==
    op = "init"
        => /\ Len(driver) >= 1
           /\ driver[1].fn = "DEV_Module_Init"
           /\ TimesInvoked("DEV_Module_Init") = 1
           /\ driver[1].ret = 0
                => /\ Len(driver) = 2
                   /\ driver[2].fn = "EPD_7IN3E_Init"
                   /\ TimesInvoked("EPD_7IN3E_Init") = 1
                   /\ exception = NoException

InitSucceeded ==
    /\ op = "init"
    /\ Len(driver) = 2
    /\ driver[1] = Call("DEV_Module_Init", <<>>, 0)
    /\ driver[2].fn = "EPD_7IN3E_Init"
    /\ exception = NoException

\* C4: display(buffer) with a buffer of exactly getBufferSize() bytes raises
\* no error and invokes EPD_7IN3E_Display exactly once, with the caller's
\* bytes in the caller's order.
ExactBufferForwarded ==
    (DisplayOfBuffer /\ Len(info[1].b) = BufferSizeValue(width, height))
        => /\ exception = NoException
           /\ driver = <<Call("EPD_7IN3E_Display", info[1].b, 0)>>

MixedBufferForwarded ==
    /\ DisplayOfBuffer
    /\ Len(info[1].b) >= 2
    /\ info[1].b[1] # info[1].b[Len(info[1].b)]
    /\ exception = NoException
    /\ driver = <<Call("EPD_7IN3E_Display", info[1].b, 0)>>

\* C5: getBufferSize() returns ceil(width / 2) * height, for even and odd
\* widths, and display accepts a buffer if and only if its length is the
\* value getBufferSize() returns.
BufferSizeAgrees ==
    /\ op = "getBufferSize" => result = Num(CeilHalf(width) * height)
    /\ DisplayOfBuffer
        => (exception = NoException
                <=> Len(info[1].b) = BufferSizeValue(width, height))
    /\ BufferSizeValue(width, height) = CeilHalf(width) * height

OddWidthBufferAccepted ==
    /\ DisplayOfBuffer
    /\ width % 2 = 1
    /\ width > 1
    /\ exception = NoException
    /\ Len(info[1].b) = CeilHalf(width) * height
    /\ Invoked("EPD_7IN3E_Display")

\* C6: clear(n) with a number n outside 0..255 is rejected with an error and
\* the driver clear routine EPD_7IN3E_Clear is not invoked for that call.
OutOfRangeColorRejected ==
    (ClearOfNumber /\ info[1].n \notin 0..255)
        => /\ exception # NoException
           /\ ~Invoked("EPD_7IN3E_Clear")

\* C7: clear() without arguments fails with the arity error, clear(x) with a
\* non-number first fails with the type error, EPD_7IN3E_Clear is invoked in
\* neither case, and the arity check comes first (a call without arguments
\* reports the arity error, not the type error).
ClearArgumentErrors ==
    /\ (op = "clear" /\ Len(info) = 0)
        => /\ exception = TypeError("Wrong number of arguments")
           /\ ~Invoked("EPD_7IN3E_Clear")
    /\ (op = "clear" /\ Len(info) >= 1 /\ ~IsNumber(info[1]))
        => /\ exception = TypeError("Expected number")
           /\ ~Invoked("EPD_7IN3E_Clear")

ClearWithoutArguments ==
    /\ op = "clear"
    /\ info = <<>>
    /\ exception.msg = "Wrong number of arguments"
    /\ driver = <<>>

\* C8: clear(c) with a number c in 0..255 raises no error and invokes
\* EPD_7IN3E_Clear exactly once with c unchanged.
ByteColorForwarded ==
    (ClearOfNumber /\ info[1].n \in 0..255)
        => /\ exception = NoException
           /\ driver = <<Call("EPD_7IN3E_Clear", <<info[1].n>>, 0)>>

HighByteColorForwarded ==
    /\ ClearOfNumber
    /\ info[1].n = 255
    /\ exception = NoException
    /\ driver = <<Call("EPD_7IN3E_Clear", <<255>>, 0)>>

\* C9: no call to an operation of the binding, failing or not, changes the
\* Colors mapping or the panel geometry, and each accessor returns the value
\* given by the geometry of the module as loaded; so Colors keeps its codes
\* and getWidth(), getHeight(), getBufferSize() keep returning the values of
\* their first call.
ConstantsStable ==
    [][/\ Colors' = Colors
       /\ Colors = CreateColorConstants
       /\ width' = width
       /\ height' = height
       /\ op' = "getWidth" => result' = Num(width)
       /\ op' = "getHeight" => result' = Num(height)
       /\ op' = "getBufferSize" => result' = Num(BufferSizeValue(width, height))
      ]_vars

AccessorAfterExit ==
    /\ op = "getBufferSize"
    /\ hw = "exited"
    /\ result = Num(BufferSizeValue(width, height))
    /\ Colors.GREEN = EPD_7IN3E_GREEN
    /\ Colors.BLACK = EPD_7IN3E_BLACK

\* C10: whether clear, display, show, show7Block, sleep or exit raises an
\* error or is forwarded to the driver is decided by the call's arguments
\* alone, whatever the lifecycle of the hardware handle was before the call
\* (never initialised, failed init, asleep, exited); init() and exit() are
\* forwarded on every call.
Routine ==
    [show |-> "EPD_7IN3E_Show", show7Block |-> "EPD_7IN3E_Show7Block",
     sleep |-> "EPD_7IN3E_Sleep", exit |-> "DEV_Module_Exit"]

NoLifecycleState ==
    /\ op \in DOMAIN Routine
        => /\ exception = NoException
           /\ driver = <<Call(Routine[op], <<>>, 0)>>
    /\ op = "clear"
        => /\ exception = NoException <=> (Len(info) >= 1 /\ IsNumber(info[1]))
           /\ exception = NoException <=> TimesInvoked("EPD_7IN3E_Clear") = 1
           /\ exception # NoException <=> driver = <<>>
    /\ op = "display"
        => /\ exception = NoException
                <=> /\ Len(info) >= 1
                    /\ IsBuffer(info[1])
                    /\ Len(info[1].b) = CeilHalf(width) * height
           /\ exception = NoException <=> TimesInvoked("EPD_7IN3E_Display") = 1
           /\ exception # NoException <=> driver = <<>>
    /\ op = "init" => Invoked("DEV_Module_Init")

SleepBeforeAnyInit ==
    /\ op = "sleep"
    /\ hwBefore = "uninit"
    /\ exception = NoException
    /\ driver = <<Call("EPD_7IN3E_Sleep", <<>>, 0)>>
====
